---- MODULE Spec2Model ----
(***************************************************************************)
(* A model of aioquic's asyncio client entry point,                        *)
(*     src/aioquic/asyncio/client.py : connect()                           *)
(* an async generator wrapped by contextlib.asynccontextmanager.           *)
(*                                                                         *)
(* Each call of connect() is a coroutine of the single-threaded asyncio    *)
(* event loop.  pc[c] is the statement call c executes next, or the await  *)
(* it is suspended in.  Strings of the program (hosts, IP literals) are    *)
(* sequences of one-character strings, so that parsing and concatenation   *)
(* are computed.  An Optional value is <<>> (None) or <<v>>.               *)
(***************************************************************************)
EXTENDS Integers, Sequences, FiniteSets, TLC

\* ------------------------------------------------------------------------
\* Bounds of the model
\* ------------------------------------------------------------------------

\* The longest list of candidates the resolver returns.
MaxCandidates == 2

\* ------------------------------------------------------------------------
\* Strings
\* ------------------------------------------------------------------------

None == <<>>

Some(v) == <<v>>

DecDigits == {"0", "1", "2", "3", "4", "5", "6", "7", "8", "9"}

HexDigits == DecDigits \cup {"a", "b", "c", "d", "e", "f", "A", "B", "C", "D", "E", "F"}

DigitVal(ch) ==
    CASE ch = "0" -> 0 [] ch = "1" -> 1 [] ch = "2" -> 2 [] ch = "3" -> 3
      [] ch = "4" -> 4 [] ch = "5" -> 5 [] ch = "6" -> 6 [] ch = "7" -> 7
      [] ch = "8" -> 8 [] ch = "9" -> 9

\* str.__contains__ for a single character
Contains(s, ch) == \E i \in 1..Len(s) : s[i] = ch

\* str.split(sep) for a one-character separator
RECURSIVE Split(_, _)
Split(s, sep) ==
    IF ~Contains(s, sep) THEN <<s>>
    ELSE LET k == CHOOSE i \in 1..Len(s) :
                      s[i] = sep /\ \A j \in 1..(i - 1) : s[j] # sep
         IN  <<SubSeq(s, 1, k - 1)>> \o Split(SubSeq(s, k + 1, Len(s)), sep)

\* int(s, 10) of a string of decimal digits
RECURSIVE DecValue(_)
DecValue(s) ==
    IF s = <<>> THEN 0
    ELSE 10 * DecValue(SubSeq(s, 1, Len(s) - 1)) + DigitVal(s[Len(s)])

\* ------------------------------------------------------------------------
\* ipaddress.ip_address(host), called at client.py:59.  Only whether it
\* returns or raises ValueError matters to connect().
\* ------------------------------------------------------------------------

\* IPv4Address._parse_octet returns (TRUE) or raises ValueError (FALSE)
ParseOctetOk(o) ==
    /\ o # <<>>
    /\ \A i \in 1..Len(o) : o[i] \in DecDigits
    /\ Len(o) <= 3
    /\ ~(o # <<"0">> /\ o[1] = "0")
    /\ DecValue(o) <= 255

\* IPv4Address(s) returns or raises AddressValueError
IPv4Ok(s) ==
    /\ s # <<>>
    /\ ~Contains(s, "/")
    /\ LET octets == Split(s, ".")
       IN  /\ Len(octets) = 4
           /\ \A i \in 1..4 : ParseOctetOk(octets[i])

\* IPv6Address._parse_hextet returns or raises ValueError
ParseHextetOk(h) ==
    /\ \A i \in 1..Len(h) : h[i] \in HexDigits
    /\ Len(h) <= 4
    /\ h # <<>>

\* IPv6Address._split_scope_id: <<ok, addr>>
SplitScopeId(s) ==
    IF ~Contains(s, "%") THEN <<TRUE, s>>
    ELSE LET k == CHOOSE i \in 1..Len(s) :
                      s[i] = "%" /\ \A j \in 1..(i - 1) : s[j] # "%"
             scope == SubSeq(s, k + 1, Len(s))
         IN  <<scope # <<>> /\ ~Contains(scope, "%"), SubSeq(s, 1, k - 1)>>

\* IPv6Address._ip_int_from_string returns or raises AddressValueError
IPv6PartsOk(s) ==
    /\ s # <<>>
    /\ LET parts0 == Split(s, ":")
       IN  /\ Len(parts0) >= 3
           /\ LET last == parts0[Len(parts0)]
                  v4suffix == Contains(last, ".")
                  \* the IPv4 suffix is replaced by its two hextets, which
                  \* are well-formed whatever their value
                  parts == IF v4suffix
                           THEN SubSeq(parts0, 1, Len(parts0) - 1) \o <<<<"0">>, <<"0">>>>
                           ELSE parts0
                  n == Len(parts)
                  skips == {i \in 2..(n - 1) : parts[i] = <<>>}
              IN  /\ v4suffix => IPv4Ok(last)
                  /\ n <= 9
                  /\ Cardinality(skips) <= 1
                  /\ IF skips # {}
                     THEN LET skip == CHOOSE i \in skips : TRUE
                              hi0 == skip - 1
                              lo0 == n - skip
                              hi == IF parts[1] = <<>> THEN hi0 - 1 ELSE hi0
                              lo == IF parts[n] = <<>> THEN lo0 - 1 ELSE lo0
                          IN  /\ parts[1] = <<>> => hi = 0
                              /\ parts[n] = <<>> => lo = 0
                              /\ 8 - (hi + lo) >= 1
                              /\ \A i \in 1..hi : ParseHextetOk(parts[i])
                              /\ \A i \in (n - lo + 1)..n : ParseHextetOk(parts[i])
                     ELSE /\ n = 8
                          /\ parts[1] # <<>>
                          /\ parts[n] # <<>>
                          /\ \A i \in 1..n : ParseHextetOk(parts[i])

\* IPv6Address(s) returns or raises AddressValueError
IPv6Ok(s) ==
    /\ ~Contains(s, "/")
    /\ SplitScopeId(s)[1]
    /\ IPv6PartsOk(SplitScopeId(s)[2])

\* ipaddress.ip_address(s) returns (TRUE) or raises ValueError (FALSE)
IpAddressOk(s) == IPv4Ok(s) \/ IPv6Ok(s)

\* ------------------------------------------------------------------------
\* Inputs
\* ------------------------------------------------------------------------

H_v4 == <<"1", ".", "2", ".", "3", ".", "4">>

H_v6 == <<":", ":", "1">>

H_mapped == <<":", ":", "f", "f", "f", "f", ":", "1", ".", "2", ".", "3", ".", "4">>

H_name == <<"q", ".", "i", "o">>

H_three == <<"1", ".", "2", ".", "3">>

H_big == <<"2", "5", "6", ".", "0", ".", "0", ".", "1">>

H_empty == <<>>

Hosts == {H_v4, H_v6, H_mapped, H_name, H_three, H_big, H_empty}

\* Caller-chosen server names a configuration may already carry
H_sni == <<"s", ".", "i", "o">>

PresetNames == {H_sni}

Ports == {0, 4433}

\* sockaddr of a resolver candidate: (ip, port) for AF_INET,
\* (ip, port, flowinfo, scope_id) for AF_INET6
A_v4 == <<H_v4, 4433>>

A_v4b == <<<<"5", ".", "6", ".", "7", ".", "8">>, 443>>

A_v6 == <<H_v6, 4433, 0, 7>>

\* One entry of getaddrinfo's list: (family, type, proto, canonname, sockaddr)
Info(a) == <<IF Len(a) = 2 THEN "AF_INET" ELSE "AF_INET6", "SOCK_DGRAM", 17, <<>>, a>>

Candidates == {Info(A_v4), Info(A_v4b), Info(A_v6)}

RECURSIVE SeqsUpTo(_, _)
SeqsUpTo(S, n) ==
    IF n = 0 THEN {<<>>}
    ELSE SeqsUpTo(S, n - 1) \cup
         {Append(q, x) : q \in {r \in SeqsUpTo(S, n - 1) : Len(r) = n - 1}, x \in S}

\* The lists getaddrinfo may return
ResolverResults == SeqsUpTo(Candidates, MaxCandidates)

\* The calls of connect() the model follows
Calls == {1, 2}

\* ------------------------------------------------------------------------
\* State
\* ------------------------------------------------------------------------

VARIABLES
    pc,              \* per call: next statement, or the await it is suspended in
    host,            \* argument host
    wait_connected,  \* argument wait_connected
    local_port,      \* argument local_port
    configuration,   \* the local variable: "None" or a reference into heap
    heap,            \* QuicConfiguration objects: reference -> fields
    server_name,     \* local server_name (Optional)
    preset,          \* the server_name line 73 found in the configuration
    infos,           \* local infos
    addr,            \* local addr
    connection,      \* Optional: the QuicConnection as constructed
    sock,            \* the UDP socket of the call
    completed,       \* local completed
    endpoint,        \* TRUE once (transport, protocol) exist
    hs,              \* the adapter's connected-signal: idle, pending, ok, failed
    closed,          \* the adapter's closed-signal
    exc,             \* the exception in flight ("None" if none)
    origExc,         \* the exception in flight when the finally block was entered
    log              \* per call: the calls made, awaits returned and raises, in order

vars == <<pc, host, wait_connected, local_port, configuration, heap, server_name, preset,
          infos, addr, connection, sock, completed, endpoint, hs, closed, exc,
          origExc, log>>

\* An event of a call's log
Call(what) == <<"call", what>>

Ret(what) == <<"ret", what>>

Raise(what) == <<"raise", what>>

NoSock == [state |-> "none", v6only |-> TRUE, bound |-> None]

\* The awaits of connect(), the caller's scope, and calls not running
SuspendedPcs == {"idle", "start", "getaddrinfo", "create_datagram_endpoint",
                 "wait_connected", "held", "wait_closed", "done"}

\* asyncio runs one coroutine at a time: call c takes a step only while
\* every other call is suspended
CanRun(c) == \A d \in Calls \ {c} : pc[d] \in SuspendedPcs

\* Callbacks of the event loop (datagrams reaching an adapter) run only
\* while every coroutine is suspended
LoopIdle == \A d \in Calls : pc[d] \in SuspendedPcs

\* The configurations a caller may pass
CallerConfigs == [server_name : {None} \cup {Some(n) : n \in PresetNames},
                  is_client : BOOLEAN]

\* QuicConfiguration(is_client=True)
DefaultConfiguration == [server_name |-> None, is_client |-> TRUE]

\* The object a configuration=None call allocates at line 72
NewRef(c) == IF c = 1 THEN "new1" ELSE "new2"

InitFor(started) ==
    /\ pc = [c \in Calls |-> IF c \in started THEN "start" ELSE "idle"]
    /\ host \in [Calls -> Hosts]
    /\ \A c \in Calls \ started : host[c] = H_empty
    /\ wait_connected \in [Calls -> BOOLEAN]
    /\ \A c \in Calls \ started : wait_connected[c]
    /\ local_port \in [Calls -> Ports]
    /\ \A c \in Calls \ started : local_port[c] = 0
    /\ configuration \in [Calls -> {"None", "cfg0"}]
    /\ \A c \in Calls \ started : configuration[c] = "None"
    /\ \/ /\ \E c \in Calls : configuration[c] = "cfg0"
          /\ \E r \in CallerConfigs : heap = [o \in {"cfg0"} |-> r]
       \/ /\ \A c \in Calls : configuration[c] = "None"
          /\ heap = [o \in {} |-> DefaultConfiguration]
    /\ server_name = [c \in Calls |-> None]
    /\ preset = [c \in Calls |-> None]
    /\ infos = [c \in Calls |-> <<>>]
    /\ addr = [c \in Calls |-> <<>>]
    /\ connection = [c \in Calls |-> None]
    /\ sock = [c \in Calls |-> NoSock]
    /\ completed = [c \in Calls |-> FALSE]
    /\ endpoint = [c \in Calls |-> FALSE]
    /\ hs = [c \in Calls |-> "idle"]
    /\ closed = [c \in Calls |-> FALSE]
    /\ exc = [c \in Calls |-> "None"]
    /\ origExc = [c \in Calls |-> "None"]
    /\ log = [c \in Calls |-> <<>>]

\* One call of connect()
Init == InitFor({1})

\* ------------------------------------------------------------------------
\* connect(), statement by statement
\* ------------------------------------------------------------------------

\* A variant of Propagate: the try of line 95 opened early, so that every
\* exception of the setup runs the finally block
PropagateThroughFinally(c, e) ==
    /\ exc' = [exc EXCEPT ![c] = e]
    /\ pc' = [pc EXCEPT ![c] = "protocol.close"]

\* An exception leaves connect(): before the try of line 95 nothing handles it
Propagate(c, e) ==
    /\ exc' = [exc EXCEPT ![c] = e]
    /\ pc' = [pc EXCEPT ![c] = "done"]

\* lines 58-62: try ipaddress.ip_address(host) / except ValueError
SniPolicy(h) == IF IpAddressOk(h) THEN None ELSE Some(h)

\* lines 54-65: up to the await of loop.getaddrinfo
Start(c) ==
    /\ pc[c] = "start" /\ CanRun(c)
    /\ server_name' = [server_name EXCEPT ![c] = SniPolicy(host[c])]
    /\ log' = [log EXCEPT ![c] = Append(@, Call("getaddrinfo"))]
    /\ pc' = [pc EXCEPT ![c] = "getaddrinfo"]
    /\ UNCHANGED <<host, wait_connected, local_port, configuration, heap, preset, infos,
                   addr, connection, sock, completed, endpoint, hs, closed, exc, origExc>>

\* line 65: getaddrinfo returns a list
GetaddrinfoReturn(c) ==
    /\ pc[c] = "getaddrinfo" /\ CanRun(c)
    /\ \E r \in ResolverResults : infos' = [infos EXCEPT ![c] = r]
    /\ log' = [log EXCEPT ![c] = Append(@, Ret("getaddrinfo"))]
    /\ pc' = [pc EXCEPT ![c] = "addr"]
    /\ UNCHANGED <<host, wait_connected, local_port, configuration, heap, server_name, preset,
                   addr, connection, sock, completed, endpoint, hs, closed, exc, origExc>>

\* line 65: getaddrinfo raises socket.gaierror, or the task is cancelled in it
GetaddrinfoRaise(c) ==
    /\ pc[c] = "getaddrinfo" /\ CanRun(c)
    /\ \E e \in {"gaierror", "CancelledError"} :
          /\ log' = [log EXCEPT ![c] = Append(@, Raise(e))]
          /\ Propagate(c, e)
    /\ UNCHANGED <<host, wait_connected, local_port, configuration, heap, server_name, preset,
                   infos, addr, connection, sock, completed, endpoint, hs, closed, origExc>>

V4Mapped == <<":", ":", "f", "f", "f", "f", ":">>

\* A variant of Normalize: the "::ffff:" prefix dropped
NormalizeNoPrefix(a) == IF Len(a) = 2 THEN <<a[1], a[2], 0, 0>> ELSE a

\* lines 67-68
Normalize(a) == IF Len(a) = 2 THEN <<V4Mapped \o a[1], a[2], 0, 0>> ELSE a

\* A variant of Pick: the last candidate instead of the first
PickLast(l) == l[Len(l)][5]

\* line 66: infos[0][4], the sockaddr of the first candidate
Pick(l) == l[1][5]

\* lines 66-68: addr = infos[0][4]; an empty list raises IndexError
PickAddr(c) ==
    /\ pc[c] = "addr" /\ CanRun(c)
    /\ IF infos[c] = <<>>
       THEN /\ log' = [log EXCEPT ![c] = Append(@, Raise("IndexError"))]
            /\ Propagate(c, "IndexError")
            /\ UNCHANGED addr
       ELSE /\ addr' = [addr EXCEPT ![c] = Normalize(Pick(infos[c]))]
            /\ pc' = [pc EXCEPT ![c] = "configure"]
            /\ UNCHANGED <<exc, log>>
    /\ UNCHANGED <<host, wait_connected, local_port, configuration, heap, server_name, preset,
                   infos, connection, sock, completed, endpoint, hs, closed, origExc>>

\* A variant of SetServerName: the assignment of line 74 dropped
SetServerNameNever(cfg, name) == cfg

\* A variant of SetServerName: the test of line 73 dropped
SetServerNameAlways(cfg, name) == [cfg EXCEPT !.server_name = name]

\* lines 73-74: the configuration object after the assignment
SetServerName(cfg, name) ==
    IF cfg.server_name = None THEN [cfg EXCEPT !.server_name = name] ELSE cfg

\* lines 71-74
Configure(c) ==
    /\ pc[c] = "configure" /\ CanRun(c)
    /\ LET ref == IF configuration[c] = "None" THEN NewRef(c) ELSE configuration[c]
           obj == IF configuration[c] = "None" THEN DefaultConfiguration ELSE heap[ref]
       IN  /\ configuration' = [configuration EXCEPT ![c] = ref]
           /\ preset' = [preset EXCEPT ![c] = obj.server_name]
           /\ heap' = [o \in DOMAIN heap \cup {ref} |->
                          IF o = ref THEN SetServerName(obj, server_name[c]) ELSE heap[o]]
    /\ pc' = [pc EXCEPT ![c] = "QuicConnection"]
    /\ UNCHANGED <<host, wait_connected, local_port, server_name, infos, addr,
                   connection, sock, completed, endpoint, hs, closed, exc, origExc, log>>

\* lines 75-77: the connection object reads the configuration it is given
NewConnection(c) ==
    /\ pc[c] = "QuicConnection" /\ CanRun(c)
    /\ \/ /\ connection' = [connection EXCEPT ![c] =
                 Some([configuration |-> configuration[c],
                       server_name |-> heap[configuration[c]].server_name])]
          /\ log' = [log EXCEPT ![c] = Append(@, Call("QuicConnection"))]
          /\ pc' = [pc EXCEPT ![c] = "socket"]
          /\ UNCHANGED exc
       \/ /\ log' = [log EXCEPT ![c] = @ \o <<Call("QuicConnection"), Raise("QuicConnectionError")>>]
          /\ Propagate(c, "QuicConnectionError")
          /\ UNCHANGED connection
    /\ UNCHANGED <<host, wait_connected, local_port, configuration, heap, server_name, preset,
                   infos, addr, sock, completed, endpoint, hs, closed, origExc>>

\* sock.close()
SockClose(s) == [s EXCEPT !.state = "closed"]

\* A variant of SockFinally: the close of line 88 dropped
SockFinallyNoClose(s, done) == s

\* lines 86-88: finally: if not completed: sock.close()
SockFinally(s, done) == IF ~done THEN SockClose(s) ELSE s

\* the log of lines 86-88
SockFinallyLog(done) == IF ~done THEN <<Call("sock.close")>> ELSE <<>>

\* lines 80-81: socket.socket(AF_INET6, SOCK_DGRAM) returns a socket or raises OSError
NewSocket(c) ==
    /\ pc[c] = "socket" /\ CanRun(c)
    /\ \/ /\ sock' = [sock EXCEPT ![c] = [NoSock EXCEPT !.state = "open"]]
          /\ completed' = [completed EXCEPT ![c] = FALSE]
          /\ log' = [log EXCEPT ![c] = Append(@, Call("socket"))]
          /\ pc' = [pc EXCEPT ![c] = "setsockopt"]
          /\ UNCHANGED exc
       \/ /\ log' = [log EXCEPT ![c] = @ \o <<Call("socket"), Raise("SocketError")>>]
          /\ Propagate(c, "SocketError")
          /\ UNCHANGED <<sock, completed>>
    /\ UNCHANGED <<host, wait_connected, local_port, configuration, heap, server_name, preset,
                   infos, addr, connection, endpoint, hs, closed, origExc>>

\* line 83 inside the try of lines 82-88: setsockopt(IPPROTO_IPV6, IPV6_V6ONLY, 0)
Setsockopt(c) ==
    /\ pc[c] = "setsockopt" /\ CanRun(c)
    /\ \/ /\ sock' = [sock EXCEPT ![c] = [@ EXCEPT !.v6only = FALSE]]
          /\ log' = [log EXCEPT ![c] = Append(@, Call("setsockopt"))]
          /\ pc' = [pc EXCEPT ![c] = "bind"]
          /\ UNCHANGED exc
       \/ /\ sock' = [sock EXCEPT ![c] = SockFinally(@, completed[c])]
          /\ log' = [log EXCEPT ![c] = @ \o <<Call("setsockopt"), Raise("SetsockoptError")>>
                                         \o SockFinallyLog(completed[c])]
          /\ Propagate(c, "SetsockoptError")
    /\ UNCHANGED <<host, wait_connected, local_port, configuration, heap, server_name, preset,
                   infos, addr, connection, completed, endpoint, hs, closed, origExc>>

\* lines 84-88: bind((local_host, local_port, 0, 0)); completed = True; finally
Bind(c) ==
    /\ pc[c] = "bind" /\ CanRun(c)
    /\ \/ /\ completed' = [completed EXCEPT ![c] = TRUE]
          /\ sock' = [sock EXCEPT ![c] =
                 SockFinally([@ EXCEPT !.bound = Some(<<<<":", ":">>, local_port[c], 0, 0>>)],
                             TRUE)]
          /\ log' = [log EXCEPT ![c] = Append(@, Call("bind")) \o SockFinallyLog(TRUE)]
          /\ pc' = [pc EXCEPT ![c] = "endpoint"]
          /\ UNCHANGED exc
       \/ /\ sock' = [sock EXCEPT ![c] = SockFinally(@, completed[c])]
          /\ log' = [log EXCEPT ![c] = @ \o <<Call("bind"), Raise("BindError")>>
                                         \o SockFinallyLog(completed[c])]
          /\ Propagate(c, "BindError")
          /\ UNCHANGED completed
    /\ UNCHANGED <<host, wait_connected, local_port, configuration, heap, server_name, preset,
                   infos, addr, connection, endpoint, hs, closed, origExc>>

\* line 90: the await of loop.create_datagram_endpoint(..., sock=sock) begins
CreateDatagramEndpoint(c) ==
    /\ pc[c] = "endpoint" /\ CanRun(c)
    /\ log' = [log EXCEPT ![c] = Append(@, Call("create_datagram_endpoint"))]
    /\ pc' = [pc EXCEPT ![c] = "create_datagram_endpoint"]
    /\ UNCHANGED <<host, wait_connected, local_port, configuration, heap, server_name, preset,
                   infos, addr, connection, sock, completed, endpoint, hs, closed, exc,
                   origExc>>

\* lines 90-94: the await returns (transport, protocol)
EndpointReturn(c) ==
    /\ pc[c] = "create_datagram_endpoint" /\ CanRun(c)
    /\ endpoint' = [endpoint EXCEPT ![c] = TRUE]
    /\ log' = [log EXCEPT ![c] = Append(@, Ret("create_datagram_endpoint"))]
    /\ pc' = [pc EXCEPT ![c] = "protocol.connect"]
    /\ UNCHANGED <<host, wait_connected, local_port, configuration, heap, server_name, preset,
                   infos, addr, connection, sock, completed, hs, closed, exc, origExc>>

\* lines 90-93: the await raises: create_protocol (line 91) raised in the loop
\* before a transport took the socket (the socket stays as it is), or the
\* transport failed or the task was cancelled and the loop closed the
\* transport it had made, and the socket with it.  No statement of connect()
\* handles the exception or touches the socket.
EndpointRaise(c) ==
    /\ pc[c] = "create_datagram_endpoint" /\ CanRun(c)
    /\ \E e \in {"EndpointError", "CancelledError"}, loopCloses \in BOOLEAN :
          /\ e = "CancelledError" => loopCloses
          /\ sock' = [sock EXCEPT ![c] = IF loopCloses THEN SockClose(@) ELSE @]
          /\ log' = [log EXCEPT ![c] = Append(@, Raise(e))]
          /\ Propagate(c, e)
    /\ UNCHANGED <<host, wait_connected, local_port, configuration, heap, server_name, preset,
                   infos, addr, connection, completed, endpoint, hs, closed, origExc>>

\* A variant of EnterFinally: a failed connect or handshake is tried again
EnterFinallyRetry(c, e) ==
    /\ exc' = [exc EXCEPT ![c] = e]
    /\ origExc' = [origExc EXCEPT ![c] = e]
    /\ pc' = [pc EXCEPT ![c] = IF e \in {"ConnectError", "HandshakeError"}
                               THEN "protocol.connect" ELSE "protocol.close"]

\* The try of lines 95-99 is left with exception e (or "None"): the finally
\* block of lines 100-103 runs next
EnterFinally(c, e) ==
    /\ exc' = [exc EXCEPT ![c] = e]
    /\ origExc' = [origExc EXCEPT ![c] = e]
    /\ pc' = [pc EXCEPT ![c] = "protocol.close"]

\* line 96: protocol.connect(addr); an adapter may know the outcome at once
ProtocolConnect(c) ==
    /\ pc[c] = "protocol.connect" /\ CanRun(c)
    /\ \/ /\ \E h \in {"pending", "ok"} : hs' = [hs EXCEPT ![c] = h]
          /\ log' = [log EXCEPT ![c] = Append(@, <<"call", "protocol.connect", addr[c]>>)]
          /\ pc' = [pc EXCEPT ![c] = "if_wait_connected"]
          /\ UNCHANGED <<exc, origExc>>
       \/ /\ log' = [log EXCEPT ![c] = @ \o <<<<"call", "protocol.connect", addr[c]>>,
                                              Raise("ConnectError")>>]
          /\ EnterFinally(c, "ConnectError")
          /\ UNCHANGED hs
    /\ UNCHANGED <<host, wait_connected, local_port, configuration, heap, server_name, preset,
                   infos, addr, connection, sock, completed, endpoint, closed>>

\* A variant of AfterConnect: the handle yielded without waiting
NeverWait(wc) == "yield"

\* A variant of AfterConnect: the flag ignored
AlwaysWait(wc) == "wait_connected"

\* line 97: the branch on wait_connected
AfterConnect(wc) == IF wc THEN "wait_connected" ELSE "yield"

\* lines 97-98: if wait_connected: the await of protocol.wait_connected() begins
IfWaitConnected(c) ==
    /\ pc[c] = "if_wait_connected" /\ CanRun(c)
    /\ pc' = [pc EXCEPT ![c] = AfterConnect(wait_connected[c])]
    /\ log' = [log EXCEPT ![c] = IF AfterConnect(wait_connected[c]) = "wait_connected"
                                 THEN Append(@, Call("wait_connected")) ELSE @]
    /\ UNCHANGED <<host, wait_connected, local_port, configuration, heap, server_name, preset,
                   infos, addr, connection, sock, completed, endpoint, hs, closed, exc,
                   origExc>>

\* line 98: the connected-signal reports success
WaitConnectedReturn(c) ==
    /\ pc[c] = "wait_connected" /\ CanRun(c)
    /\ hs[c] = "ok"
    /\ log' = [log EXCEPT ![c] = Append(@, Ret("wait_connected"))]
    /\ pc' = [pc EXCEPT ![c] = "yield"]
    /\ UNCHANGED <<host, wait_connected, local_port, configuration, heap, server_name, preset,
                   infos, addr, connection, sock, completed, endpoint, hs, closed, exc,
                   origExc>>

\* line 98: the connected-signal reports failure, or the task is cancelled
WaitConnectedRaise(c) ==
    /\ pc[c] = "wait_connected" /\ CanRun(c)
    /\ \E e \in {"HandshakeError", "CancelledError"} :
          /\ e = "HandshakeError" => hs[c] = "failed"
          /\ log' = [log EXCEPT ![c] = Append(@, Raise(e))]
          /\ EnterFinally(c, e)
    /\ UNCHANGED <<host, wait_connected, local_port, configuration, heap, server_name, preset,
                   infos, addr, connection, sock, completed, endpoint, hs, closed>>

\* line 99: yield protocol: the caller's scope holds the handle
Yield(c) ==
    /\ pc[c] = "yield" /\ CanRun(c)
    /\ log' = [log EXCEPT ![c] = Append(@, Call("yield"))]
    /\ pc' = [pc EXCEPT ![c] = "held"]
    /\ UNCHANGED <<host, wait_connected, local_port, configuration, heap, server_name, preset,
                   infos, addr, connection, sock, completed, endpoint, hs, closed, exc,
                   origExc>>

\* How the caller's scope ends, and the exception it throws into the generator
ScopeExits == [return |-> "None", early_return |-> "None", error |-> "ScopeError",
               cancelled |-> "CancelledError"]

\* line 99: the caller's scope ends; asynccontextmanager resumes the generator
\* at the yield, throwing the scope's exception into it
ScopeExit(c) ==
    /\ pc[c] = "held" /\ CanRun(c)
    /\ \E kind \in DOMAIN ScopeExits :
          /\ log' = [log EXCEPT ![c] = Append(@, <<"exit", kind>>)]
          /\ EnterFinally(c, ScopeExits[kind])
    /\ UNCHANGED <<host, wait_connected, local_port, configuration, heap, server_name, preset,
                   infos, addr, connection, sock, completed, endpoint, hs, closed>>

\* A variant of FinallyNext: line 102 dropped
FinallyNextNoWait(p) ==
    CASE p = "protocol.close" -> "transport.close"
      [] p = "await_wait_closed" -> "wait_closed"
      [] p = "wait_closed" -> "transport.close"
      [] p = "transport.close" -> "done"

\* The statement after each statement of the finally block, lines 100-103
FinallyNext(p) ==
    CASE p = "protocol.close" -> "await_wait_closed"
      [] p = "await_wait_closed" -> "wait_closed"
      [] p = "wait_closed" -> "transport.close"
      [] p = "transport.close" -> "done"

\* An exception raised inside a finally block replaces the one in flight
\* (which survives only as its __context__)
RaisedInFinally(inflight, new) == new

\* A statement of the finally block raises e: nothing handles it, the rest of
\* the block is skipped
FinallyRaises(c, e) ==
    /\ exc' = [exc EXCEPT ![c] = RaisedInFinally(@, e)]
    /\ pc' = [pc EXCEPT ![c] = "done"]

\* line 101: protocol.close()
ProtocolClose(c) ==
    /\ pc[c] = "protocol.close" /\ CanRun(c)
    /\ \/ /\ log' = [log EXCEPT ![c] = Append(@, Call("protocol.close"))]
          /\ pc' = [pc EXCEPT ![c] = FinallyNext("protocol.close")]
          /\ UNCHANGED exc
       \/ /\ log' = [log EXCEPT ![c] = @ \o <<Call("protocol.close"), Raise("TeardownError")>>]
          /\ FinallyRaises(c, "TeardownError")
    /\ UNCHANGED <<host, wait_connected, local_port, configuration, heap, server_name, preset,
                   infos, addr, connection, sock, completed, endpoint, hs, closed, origExc>>

\* line 102: the await of protocol.wait_closed() begins
AwaitWaitClosed(c) ==
    /\ pc[c] = "await_wait_closed" /\ CanRun(c)
    /\ log' = [log EXCEPT ![c] = Append(@, Call("wait_closed"))]
    /\ pc' = [pc EXCEPT ![c] = FinallyNext("await_wait_closed")]
    /\ UNCHANGED <<host, wait_connected, local_port, configuration, heap, server_name, preset,
                   infos, addr, connection, sock, completed, endpoint, hs, closed, exc,
                   origExc>>

\* line 102: the closed-signal is observed
WaitClosedReturn(c) ==
    /\ pc[c] = "wait_closed" /\ CanRun(c)
    /\ closed[c]
    /\ log' = [log EXCEPT ![c] = Append(@, Ret("wait_closed"))]
    /\ pc' = [pc EXCEPT ![c] = FinallyNext("wait_closed")]
    /\ UNCHANGED <<host, wait_connected, local_port, configuration, heap, server_name, preset,
                   infos, addr, connection, sock, completed, endpoint, hs, closed, exc,
                   origExc>>

\* line 102: the task is cancelled while it waits, or the adapter's wait fails
WaitClosedRaise(c) ==
    /\ pc[c] = "wait_closed" /\ CanRun(c)
    /\ \E e \in {"CancelledError", "TeardownError"} :
          /\ log' = [log EXCEPT ![c] = Append(@, Raise(e))]
          /\ FinallyRaises(c, e)
    /\ UNCHANGED <<host, wait_connected, local_port, configuration, heap, server_name, preset,
                   infos, addr, connection, sock, completed, endpoint, hs, closed, origExc>>

\* line 103: transport.close() releases the socket; after it the generator
\* re-raises the exception in flight, if any
TransportClose(c) ==
    /\ pc[c] = "transport.close" /\ CanRun(c)
    /\ \/ /\ sock' = [sock EXCEPT ![c] = SockClose(@)]
          /\ log' = [log EXCEPT ![c] = Append(@, Call("transport.close"))]
          /\ pc' = [pc EXCEPT ![c] = FinallyNext("transport.close")]
          /\ UNCHANGED exc
       \/ /\ log' = [log EXCEPT ![c] = @ \o <<Call("transport.close"), Raise("TeardownError")>>]
          /\ FinallyRaises(c, "TeardownError")
          /\ UNCHANGED sock
    /\ UNCHANGED <<host, wait_connected, local_port, configuration, heap, server_name, preset,
                   infos, addr, connection, completed, endpoint, hs, closed, origExc>>

\* ------------------------------------------------------------------------
\* The adapter, driven by the event loop while the coroutines are suspended
\* ------------------------------------------------------------------------

\* The handshake started by protocol.connect ends
HandshakeOutcome(c) ==
    /\ LoopIdle
    /\ hs[c] = "pending" /\ pc[c] \in {"wait_connected", "held"}
    /\ \E h \in {"ok", "failed"} : hs' = [hs EXCEPT ![c] = h]
    /\ UNCHANGED <<pc, host, wait_connected, local_port, configuration, heap,
                   server_name, preset, infos, addr, connection, sock, completed, endpoint,
                   closed, exc, origExc, log>>

\* The QUIC connection is fully closed: after close(), or when the handshake failed
AdapterClosed(c) ==
    /\ LoopIdle
    /\ endpoint[c] /\ ~closed[c]
    /\ \/ pc[c] = "wait_closed"
       \/ hs[c] = "failed" /\ pc[c] \in {"wait_connected", "held"}
    /\ closed' = [closed EXCEPT ![c] = TRUE]
    /\ UNCHANGED <<pc, host, wait_connected, local_port, configuration, heap,
                   server_name, preset, infos, addr, connection, sock, completed, endpoint,
                   hs, exc, origExc, log>>

Next == \E c \in Calls :
    \/ Start(c)
    \/ GetaddrinfoReturn(c)
    \/ GetaddrinfoRaise(c)
    \/ PickAddr(c)
    \/ Configure(c)
    \/ NewConnection(c)
    \/ NewSocket(c)
    \/ Setsockopt(c)
    \/ Bind(c)
    \/ CreateDatagramEndpoint(c)
    \/ EndpointReturn(c)
    \/ EndpointRaise(c)
    \/ ProtocolConnect(c)
    \/ IfWaitConnected(c)
    \/ WaitConnectedReturn(c)
    \/ WaitConnectedRaise(c)
    \/ Yield(c)
    \/ ScopeExit(c)
    \/ ProtocolClose(c)
    \/ AwaitWaitClosed(c)
    \/ WaitClosedReturn(c)
    \/ WaitClosedRaise(c)
    \/ TransportClose(c)
    \/ HandshakeOutcome(c)
    \/ AdapterClosed(c)

Spec == Init /\ [][Next]_vars

\* Two calls of connect() in one event loop, concurrent or one after the
\* other, that may be given the same configuration object.  To keep the
\* product of the two calls small, each host is a host name or an IP literal,
\* a configuration passed in has no server_name yet, local_port is 0, call 1
\* does not wait for the handshake and call 2 does, and the resolver returns
\* at most one candidate.
Init2 ==
    /\ InitFor({1, 2})
    /\ host[1] \in {H_name, H_v4}
    /\ host[2] \in {H_three, H_v4}
    /\ \A o \in DOMAIN heap : heap[o].server_name = None
    /\ \A c \in Calls : local_port[c] = 0
    /\ ~wait_connected[1]
    /\ wait_connected[2]

Next2 == Next /\ \A c \in Calls : infos'[c] \in {<<>>, <<Info(A_v4)>>}

Spec2 == Init2 /\ [][Next2]_vars

\* ------------------------------------------------------------------------
\* Properties
\* ------------------------------------------------------------------------

\* How often event ev is in the log of call c
Count(c, ev) == Cardinality({i \in 1..Len(log[c]) : log[c][i] = ev})

Logged(c, ev) == \E i \in 1..Len(log[c]) : log[c][i] = ev

\* Event a is in the log of call c before every event b of it
Before(c, a, b) ==
    \A i \in 1..Len(log[c]) : log[c][i] = b => \E j \in 1..(i - 1) : log[c][j] = a

\* The caller's scope ended, in one of the ways ScopeExits lists
ScopeEnded(c) == \E k \in DOMAIN ScopeExits : Logged(c, <<"exit", k>>)

\* Each step of the close sequence was invoked exactly once
CloseSequenceOnce(c) ==
    /\ Count(c, Call("protocol.close")) = 1
    /\ Count(c, Call("wait_closed")) = 1
    /\ Count(c, Call("transport.close")) = 1

\* No step of the close sequence was invoked
NoCloseSequence(c) ==
    /\ ~Logged(c, Call("protocol.close"))
    /\ ~Logged(c, Call("wait_closed"))
    /\ ~Logged(c, Call("transport.close"))

\* C1: when a call that created adapter and transport has ended, and its
\* caller's scope ended in any way, protocol.close(), the await of
\* wait_closed() and transport.close() were each invoked exactly once.
C1_CloseSequenceExactlyOnce ==
    \A c \in Calls :
        pc[c] = "done" /\ endpoint[c] /\ ScopeEnded(c) => CloseSequenceOnce(c)

\* C2: transport.close() is invoked only after wait_closed() has returned,
\* which is awaited only after protocol.close() has been invoked.
C2_TeardownOrder ==
    \A c \in Calls :
        /\ Before(c, Ret("wait_closed"), Call("transport.close"))
        /\ Before(c, Call("wait_closed"), Ret("wait_closed"))
        /\ Before(c, Call("protocol.close"), Call("wait_closed"))
        /\ pc[c] = "transport.close" => closed[c]

C2_Witness ==
    \E c \in Calls : pc[c] = "done" /\ Logged(c, Call("transport.close"))

\* The task of call c was cancelled once, at a suspension point after the
\* adapter existed, and nothing else went wrong: that CancelledError is the
\* only exception of the call
OnlyCancelled(c) ==
    /\ endpoint[c]
    /\ Count(c, Raise("CancelledError")) + Count(c, <<"exit", "cancelled">>) = 1
    /\ \A i \in 1..Len(log[c]) :
          log[c][i][1] = "raise" => log[c][i] = Raise("CancelledError")
    /\ ~Logged(c, <<"exit", "error">>)

\* C3: when a call whose task was cancelled at a suspension point after the
\* adapter existed has ended, no teardown step was skipped: protocol.close()
\* was invoked, wait_closed() returned, transport.close() was invoked and the
\* socket is closed.
C3_CancellationKeepsTeardown ==
    \A c \in Calls :
        pc[c] = "done" /\ OnlyCancelled(c) =>
            /\ Logged(c, Call("protocol.close"))
            /\ Logged(c, Ret("wait_closed"))
            /\ Logged(c, Call("transport.close"))
            /\ sock[c].state = "closed"

\* C4: when a call with wait_connected = true whose wait saw the handshake
\* fail has ended, it raises the handshake error, never yielded the handle,
\* and the close sequence ran exactly once.
C4_HandshakeFailure ==
    \A c \in Calls :
        pc[c] = "done" /\ wait_connected[c] /\ Logged(c, Raise("HandshakeError")) =>
            /\ exc[c] = "HandshakeError"
            /\ ~Logged(c, Call("yield"))
            /\ CloseSequenceOnce(c)
            /\ Logged(c, Ret("wait_closed"))

\* C5: when the finally block was entered with an exception in flight and a
\* teardown step failed, the exception that leaves connect() is the one that
\* was in flight.
C5_TeardownNeverMasks ==
    \A c \in Calls :
        pc[c] = "done" /\ origExc[c] # "None" /\ Logged(c, Raise("TeardownError")) =>
            exc[c] = origExc[c]

\* C6: with wait_connected = false the call never awaits the connected-signal:
\* the step after protocol.connect(addr) is the yield (or the exception that
\* protocol.connect raised), whatever the state of the handshake.
C6_NoWaitYieldsAtOnce ==
    \A c \in Calls :
        ~wait_connected[c] =>
            /\ pc[c] # "wait_connected"
            /\ ~Logged(c, Call("wait_connected"))
            /\ \A i \in 1..(Len(log[c]) - 1) :
                  log[c][i] = <<"call", "protocol.connect", addr[c]>> =>
                      log[c][i + 1] \in {Call("yield"), Raise("ConnectError")}

C6_Witness ==
    \E c \in Calls : pc[c] = "held" /\ ~wait_connected[c] /\ hs[c] = "pending"

\* C7: when a call has ended with an exception raised by a setup step after
\* the socket was allocated (setsockopt, bind, or the construction of the
\* endpoint), the socket is closed.
C7_NoSocketLeakOnFailedSetup ==
    \A c \in Calls :
        pc[c] = "done" /\ sock[c].state # "none" /\ ~endpoint[c] /\ exc[c] # "None" =>
            sock[c].state = "closed"

\* C8: socket, setsockopt and bind happen in that order; when setsockopt or
\* bind fails the socket is closed exactly once, before the exception leaves;
\* after a successful bind the socket is open, dual-stack and bound to
\* ("::", local_port, 0, 0), and was never closed.
C8_DualStackSocket ==
    \A c \in Calls :
        /\ Before(c, Call("setsockopt"), Call("bind"))
        /\ Before(c, Call("socket"), Call("setsockopt"))
        /\ pc[c] = "done" /\ exc[c] \in {"SetsockoptError", "BindError"} =>
              /\ Count(c, Call("sock.close")) = 1
              /\ sock[c].state = "closed"
              /\ log[c][Len(log[c])] = Call("sock.close")
        /\ pc[c] = "endpoint" =>
              /\ sock[c] = [state |-> "open", v6only |-> FALSE,
                            bound |-> Some(<<<<":", ":">>, local_port[c], 0, 0>>)]
              /\ ~Logged(c, Call("sock.close"))

C8_Witness ==
    \E c \in Calls : pc[c] = "done" /\ exc[c] = "BindError" /\ local_port[c] = 4433

\* The exception e, once raised, leaves connect() at once and no step of the
\* close sequence runs
LeavesWithoutClose(c, e) ==
    /\ pc[c] = "done"
    /\ exc[c] = e
    /\ NoCloseSequence(c)

LiteralIPHosts == {H_v4, H_v6, H_mapped}

\* C10: the connection is constructed with the server_name the configuration
\* already carried, if any; otherwise with none for a literal IP host and
\* with the host itself for any other host.
C10_ServerName ==
    \A c \in Calls :
        connection[c] # None =>
            connection[c][1].server_name =
                IF preset[c] # None THEN preset[c]
                ELSE IF host[c] \in LiteralIPHosts THEN None
                ELSE Some(host[c])

C10_Witness ==
    \E c \in Calls :
        /\ connection[c] # None
        /\ preset[c] = None
        /\ host[c] = H_three
        /\ connection[c][1].server_name = Some(H_three)

\* C11: for a host that is not a literal IP and a configuration without a
\* server_name, the configuration carries a server_name when the connection
\* is about to be constructed, and the constructed connection carries the
\* host as its server_name.
C11_ServerNameBeforeConnection ==
    \A c \in Calls :
        (host[c] \notin LiteralIPHosts /\ preset[c] = None) =>
            /\ pc[c] = "QuicConnection" =>
                   /\ configuration[c] # "None"
                   /\ heap[configuration[c]].server_name = Some(host[c])
            /\ connection[c] # None =>
                   connection[c][1].server_name = Some(host[c])

C11_Witness ==
    \E c \in Calls :
        /\ pc[c] = "QuicConnection"
        /\ host[c] = H_name
        /\ preset[c] = None
        /\ heap[configuration[c]].server_name = Some(H_name)

\* The destination lines 66-68 compute from each sockaddr of the model,
\* written out: an IPv4 pair becomes the IPv4-mapped 4-tuple, an IPv6
\* 4-tuple is kept.
ExpectedDestination(a) ==
    CASE a = <<<<"1", ".", "2", ".", "3", ".", "4">>, 4433>> ->
             <<<<":", ":", "f", "f", "f", "f", ":",
                 "1", ".", "2", ".", "3", ".", "4">>, 4433, 0, 0>>
      [] a = <<<<"5", ".", "6", ".", "7", ".", "8">>, 443>> ->
             <<<<":", ":", "f", "f", "f", "f", ":",
                 "5", ".", "6", ".", "7", ".", "8">>, 443, 0, 0>>
      [] a = <<<<":", ":", "1">>, 4433, 0, 7>> ->
             <<<<":", ":", "1">>, 4433, 0, 7>>

\* The protocol.connect events of call c, as positions of its log
ConnectEvents(c) == {i \in 1..Len(log[c]) : Len(log[c][i]) = 3}

\* C12: the destination handed to protocol.connect() is the first resolved
\* candidate in normalized form: not the raw candidate and not the host.
C12_DestinationNormalized ==
    \A c \in Calls : \A i \in ConnectEvents(c) :
        /\ infos[c] # <<>>
        /\ log[c][i][3] = ExpectedDestination(infos[c][1][5])
        /\ Len(log[c][i][3]) = 4

C12_Witness ==
    \E c \in Calls : \E i \in ConnectEvents(c) :
        /\ infos[c][1][5] = A_v4
        /\ log[c][i][3] = <<H_mapped, 4433, 0, 0>>

\* C13 as claimed: when the resolver returns an empty candidate list the
\* call fails with the resolution error, and no socket, connection object or
\* adapter has been created.
C13_EmptyListIsResolutionError ==
    \A c \in Calls :
        (pc[c] = "done" /\ Logged(c, Ret("getaddrinfo")) /\ infos[c] = <<>>) =>
            /\ exc[c] = "gaierror"
            /\ sock[c] = NoSock
            /\ connection[c] = None
            /\ ~endpoint[c]

\* C14: one call resolves at most once, calls protocol.connect() at most
\* once and with the destination of the first candidate whatever the other
\* candidates are, and invokes no step a second time after a failure.
C14_SingleAttempt ==
    \A c \in Calls :
        /\ Count(c, Call("getaddrinfo")) <= 1
        /\ Cardinality(ConnectEvents(c)) <= 1
        /\ \A i \in ConnectEvents(c) :
               log[c][i][3] = ExpectedDestination(infos[c][1][5])
        /\ \A i, j \in 1..Len(log[c]) :
               (log[c][i][1] = "call" /\ log[c][i] = log[c][j]) => i = j

C14_Witness ==
    \E c \in Calls :
        /\ pc[c] = "done"
        /\ Len(infos[c]) = 2
        /\ infos[c][1] # infos[c][2]
        /\ Logged(c, Raise("HandshakeError"))
        /\ Cardinality(ConnectEvents(c)) = 1

\* The lifecycle state of call c, read from where its code stands: CREATED
\* once the connection object exists, CONNECTING once protocol.connect() was
\* issued, CONNECTED while the caller holds the handle, FAILED when connect
\* or the handshake failed, CLOSING once protocol.close() was called, CLOSED
\* once transport.close() returned.
Lifecycle(c) ==
    CASE pc[c] \in {"idle", "start", "getaddrinfo", "addr", "configure",
                    "QuicConnection"} -> "NONE"
      [] pc[c] \in {"socket", "setsockopt", "bind", "endpoint",
                    "create_datagram_endpoint", "protocol.connect"} -> "CREATED"
      [] pc[c] \in {"if_wait_connected", "wait_connected", "yield"} -> "CONNECTING"
      [] pc[c] = "held" -> "CONNECTED"
      [] pc[c] = "protocol.close" ->
             IF origExc[c] \in {"ConnectError", "HandshakeError"} THEN "FAILED"
             ELSE IF Logged(c, Call("yield")) THEN "CONNECTED"
             ELSE "CONNECTING"
      [] pc[c] \in {"await_wait_closed", "wait_closed", "transport.close"} -> "CLOSING"
      [] pc[c] = "done" ->
             IF log[c] # <<>> /\ log[c][Len(log[c])] = Call("transport.close")
             THEN "CLOSED"
             ELSE IF Logged(c, Call("protocol.close")) THEN "CLOSING"
             ELSE IF connection[c] # None THEN "CREATED"
             ELSE "NONE"

LifecycleRank(l) ==
    CASE l = "NONE" -> 0
      [] l = "CREATED" -> 1
      [] l = "CONNECTING" -> 2
      [] l \in {"CONNECTED", "FAILED"} -> 3
      [] l = "CLOSING" -> 4
      [] l = "CLOSED" -> 5

\* C15: every step keeps or advances the lifecycle state of a call and never
\* goes back to a state it left; CLOSING is entered only from CONNECTING,
\* CONNECTED or FAILED, CLOSED only from CLOSING; protocol.close() is called
\* only after protocol.connect() was.
C15_LifecycleForward ==
    [][\A c \in Calls :
          /\ LifecycleRank(Lifecycle(c)') >= LifecycleRank(Lifecycle(c))
          /\ Lifecycle(c)' # Lifecycle(c) =>
                 /\ LifecycleRank(Lifecycle(c)') > LifecycleRank(Lifecycle(c))
                 /\ Lifecycle(c)' = "CLOSING" =>
                        Lifecycle(c) \in {"CONNECTING", "CONNECTED", "FAILED"}
                 /\ Lifecycle(c)' = "CLOSED" => Lifecycle(c) = "CLOSING"
          /\ \A i \in 1..Len(log'[c]) :
                 log'[c][i] = Call("protocol.close") =>
                     \E j \in 1..(i - 1) : Len(log'[c][j]) = 3]_vars

C15_Witness ==
    \E c \in Calls :
        /\ Lifecycle(c) = "CLOSED"
        /\ Logged(c, Raise("HandshakeError"))
        /\ origExc[c] = "HandshakeError"

\* C16: with wait_connected true, the handle is yielded only after
\* wait_connected() returned and the handshake succeeded: the caller never
\* holds the handle of a handshake that is pending or failed at the yield.
C16_YieldAfterHandshake ==
    \A c \in Calls :
        wait_connected[c] =>
            /\ pc[c] = "yield" => hs[c] = "ok" /\ Logged(c, Ret("wait_connected"))
            /\ Before(c, Ret("wait_connected"), Call("yield"))
            /\ Logged(c, Raise("HandshakeError")) => ~Logged(c, Call("yield"))

C16_Witness ==
    \E c \in Calls :
        /\ wait_connected[c]
        /\ pc[c] = "held"
        /\ hs[c] = "ok"
        /\ Logged(c, Ret("wait_connected"))

\* What call c owns: its position, socket, connection object, adapter and
\* transport, handshake and close state, addresses and error
PerCall(c) ==
    <<pc[c], sock[c], completed[c], connection[c], endpoint[c], hs[c], closed[c],
      infos[c], addr[c], server_name[c], exc[c], log[c]>>

\* C17 as claimed: with two concurrent calls, each call creates at most one
\* socket and one connection object, exactly one of each once its adapter
\* exists, and a step of one call changes nothing another call uses: neither
\* what the other call owns nor the configuration object the connection of
\* a call still running holds.
C17_NoSharedResource ==
    [][\A c \in Calls :
          /\ Count(c, Call("socket"))' <= 1
          /\ Count(c, Call("QuicConnection"))' <= 1
          /\ endpoint'[c] => /\ Count(c, Call("socket"))' = 1
                             /\ Count(c, Call("QuicConnection"))' = 1
          /\ pc'[c] # pc[c] =>
                 \A d \in Calls \ {c} :
                     /\ PerCall(d)' = PerCall(d)
                     /\ (connection[d] # None /\ pc[d] # "done") =>
                            heap'[connection[d][1].configuration] =
                                heap[connection[d][1].configuration]]_vars

\* C18 as claimed, in the form a finite run refutes: a call whose adapter was
\* created, whose caller's scope ended and whose adapter delivered the closed
\* signal does not terminate without transport.close() having been invoked.
C18_ScopeExitReachesClosed ==
    \A c \in Calls :
        (pc[c] = "done" /\ endpoint[c] /\ ScopeEnded(c) /\ closed[c]) =>
            Logged(c, Call("transport.close"))

\* C19: connect() writes server_name into the caller's configuration object
\* itself: when a call with a host that is not a literal IP found it unset,
\* a later call given the same object constructs its connection with the
\* first call's host as server_name; no step changes the other field of a
\* configuration object or replaces the object a call was given.
C19_ConfigurationMutatedInPlace ==
    [][/\ \A c \in Calls : \A d \in Calls \ {c} :
             ( /\ pc[d] = "QuicConnection" /\ pc'[d] = "socket"
               /\ configuration[c] = "cfg0" /\ configuration[d] = "cfg0"
               /\ Logged(c, Call("QuicConnection"))
               /\ preset[c] = None
               /\ host[c] \notin LiteralIPHosts )
             => connection'[d][1].server_name = Some(host[c])
       /\ \A o \in DOMAIN heap :
             /\ o \in DOMAIN heap'
             /\ heap'[o].is_client = heap[o].is_client
       /\ \A c \in Calls :
             configuration[c] = "cfg0" => configuration'[c] = "cfg0"]_vars

C19_Witness ==
    \E c \in Calls : \E d \in Calls \ {c} :
        /\ configuration[c] = "cfg0" /\ configuration[d] = "cfg0"
        /\ host[c] = H_name
        /\ host[d] = H_three
        /\ preset[c] = None
        /\ connection[d] # None
        /\ connection[d][1].server_name = Some(H_name)
        /\ heap["cfg0"].server_name = Some(H_name)

\* C20 as claimed: when protocol.connect() raised, the call ends with each
\* step of the close sequence invoked once, wait_closed() returned and the
\* handle never yielded; when the datagram endpoint could not be created, no
\* step of the close sequence is invoked.
C20_CloseGuardedByAdapter ==
    \A c \in Calls :
        /\ (pc[c] = "done" /\ Logged(c, Raise("ConnectError"))) =>
               /\ CloseSequenceOnce(c)
               /\ Logged(c, Ret("wait_closed"))
               /\ ~Logged(c, Call("yield"))
        /\ (Logged(c, Call("create_datagram_endpoint")) /\ ~endpoint[c]) =>
               NoCloseSequence(c)

====
